---- MODULE Spec2Model ----
(***************************************************************************)
(* A model of sqlmint: the query/transaction facade of wrap.ts (wrapClient *)
(* and wrapPool over a pg Client / Pool) and the serialization engine and  *)
(* structural helpers of the sql tag.                                      *)
(*                                                                         *)
(* A text (a JavaScript string) is a sequence of characters, each a        *)
(* one-character string; 'BEGIN' and the other statement keywords are one  *)
(* opaque character each.                                                  *)
(***************************************************************************)
EXTENDS Integers, Sequences, FiniteSets, TLC

\* ------------------------------------------------------------------ bounds

NumTx == 2          \* concurrent transaction() calls on one facade
NumConn == 2        \* connections the pool can hand out
MaxQueries == 1     \* queries a handler runs
MaxPlain == 1       \* plain query() calls on the facade
MaxLen == 3         \* longest array, condition list and mapping passed in

Tx == 1..NumTx
Conns == 1..NumConn

\* ------------------------------------------------- the facade (wrap.ts 1-51)

VARIABLES
    facade,     \* "pool" (wrapPool) or "client" (wrapClient)
    pc,         \* pc[t]: the await point transaction call t is suspended at
    client,     \* client[t]: the connection call t runs on (0: none yet)
    handled,    \* handled[t]: how the handler settled
    err,        \* err[t]: the err of the catch block
    outcome,    \* outcome[t]: how the promise of transaction() settled
    nq,         \* nq[t]: queries the handler of t has run
    lastQuery,  \* lastQuery[t]: the last query the handler ran, and what it got
    checkedOut, \* connections the pool has handed out and not got back
    wire,       \* wire[c]: the statements connection c received, in order
    events,     \* events[t]: what call t did, in order
    plain,      \* the last plain query() of the facade, and what it got
    np          \* plain query() calls made

txvars == <<facade, pc, client, handled, err, outcome, nq, lastQuery,
            checkedOut, wire, events, plain, np>>

\* ------------------------------------------ the sql tag (wrap.ts 52-157)

VARIABLES
    config,     \* the exported config object: {customSerialize?}
    call,       \* the last call made of the sql module: what, on what
    ret         \* what that call returned or threw

sqlvars == <<config, call, ret>>
vars == <<txvars, sqlvars>>

BEGIN == <<"BEGIN">>
COMMIT == <<"COMMIT">>
ROLLBACK == <<"ROLLBACK">>

NoPack == "none"
PackFns == {"inc"}

\* class WithRawSql: new WithRawSql(rawSql) leaves _packF unset.
WithRawSql(rawSql) == [t |-> "WithRawSql", rawSql |-> rawSql, _packF |-> NoPack]

\* WithRawSql.pack: a new fragment with the same text, carrying pf.
pack(f, pf) == [WithRawSql(f.rawSql) EXCEPT !._packF = pf]

\* What a pack function makes of one row (rows are numbers here).
ApplyPack(pf, row) == IF pf = "inc" THEN row + 1 ELSE row

SelectOne == WithRawSql(<<"SELECT">>)
Frags == {SelectOne} \cup {pack(SelectOne, pf) : pf \in PackFns}
DriverRows == {<<1, 2>>}
Vals == {"v1", "v2"}
HandlerErrs == {"E1"}
None == [kind |-> "none", v |-> "-"]

\* The connection a transaction call runs on: wrapClient closes over the one
\* client it was given, wrapPool uses the client pool.connect() resolved with.
TheClient == 1
\* A facade whose transactions all run on one connection.
MutTxClient(f, acquired) == TheClient

TxClient(f, acquired) == IF f = "pool" THEN acquired ELSE TheClient

\* client.query(text): the statement is queued on the connection at the call.
Send(w, c, t, by, text) ==
    [w EXCEPT ![c] = Append(@, [tx |-> t, by |-> by, text |-> text])]

\* The query function: client.query<T>(query.rawSql) / pool.query<T>(query.rawSql).
QueryText(f) == f.rawSql
QueryRows(f, rows) == rows

\* The statement sent once the handler has resolved (line 18 / 38).
AfterHandler == COMMIT
\* A catch block that commits.
MutCatchStmt == COMMIT

\* The statement the catch block sends (line 21 / 41).
CatchStmt == ROLLBACK
\* A transaction that drops the handler's value.
MutReturned(r) == [kind |-> "resolved", v |-> "undefined"]

\* return res (line 19 / 39).
Returned(r) == [kind |-> "resolved", v |-> r]
\* catch (err) { await client.query('ROLLBACK'); throw err; }: a ROLLBACK that
\* rejects throws its own failure out of the catch block, and throw err is
\* never reached.
Thrown(e, rollbackOk) == [kind |-> "rejected", v |-> IF rollbackOk THEN e ELSE "eRollback"]
\* A transaction without the finally block.
MutFinallyReleases(f) == 0

\* finally { client.release(); } exists in wrapPool only.
FinallyReleases(f) == IF f = "pool" THEN 1 ELSE 0

RECURSIVE Times(_, _)
Times(e, n) == IF n = 0 THEN <<>> ELSE <<e>> \o Times(e, n - 1)

\* The exit of the async function: the finally block, then the promise settles.
Exit(t, ev, o) ==
    /\ events' = [events EXCEPT ![t] =
                     @ \o ev \o Times("release", FinallyReleases(facade)) \o <<"settle">>]
    /\ checkedOut' = IF FinallyReleases(facade) > 0
                        THEN checkedOut \ {client[t]} ELSE checkedOut
    /\ outcome' = [outcome EXCEPT ![t] = o]
    /\ pc' = [pc EXCEPT ![t] = "done"]

TxInit ==
    /\ facade \in {"pool", "client"}
    /\ pc = [t \in Tx |-> "idle"]
    /\ client = [t \in Tx |-> 0]
    /\ handled = [t \in Tx |-> None]
    /\ err = [t \in Tx |-> "-"]
    /\ outcome = [t \in Tx |-> None]
    /\ nq = [t \in Tx |-> 0]
    /\ lastQuery = [t \in Tx |-> <<>>]
    /\ checkedOut = {}
    /\ wire = [c \in Conns |-> <<>>]
    /\ events = [t \in Tx |-> <<>>]
    /\ plain = <<>>
    /\ np = 0

\* try { await client.query('BEGIN'); ...
SendBegin(t, c) ==
    /\ client' = [client EXCEPT ![t] = c]
    /\ wire' = Send(wire, c, t, "facade", BEGIN)
    /\ events' = [events EXCEPT ![t] = @ \o <<"BEGIN">>]
    /\ pc' = [pc EXCEPT ![t] = "begin"]

\* transaction(handler) is called. wrapPool: await pool.connect().
\* wrapClient: runs on to await client.query('BEGIN').
Call(t) ==
    /\ pc[t] = "idle"
    /\ IF facade = "pool"
          THEN /\ pc' = [pc EXCEPT ![t] = "connect"]
               /\ UNCHANGED <<client, wire, events>>
          ELSE SendBegin(t, TxClient(facade, 0))
    /\ UNCHANGED <<facade, handled, err, outcome, nq, lastQuery, checkedOut, plain, np, sqlvars>>

\* pool.connect() resolves with a connection nobody holds.
Connected(t) ==
    /\ pc[t] = "connect"
    /\ \E c \in Conns \ checkedOut :
          /\ checkedOut' = checkedOut \cup {c}
          /\ SendBegin(t, TxClient(facade, c))
    /\ UNCHANGED <<facade, handled, err, outcome, nq, lastQuery, plain, np, sqlvars>>

\* pool.connect() rejects: nothing was acquired, the call rejects (line 34 is
\* outside the try).
ConnectFailed(t) ==
    /\ pc[t] = "connect"
    /\ outcome' = [outcome EXCEPT ![t] = [kind |-> "rejected", v |-> "eConnect"]]
    /\ events' = [events EXCEPT ![t] = @ \o <<"settle">>]
    /\ pc' = [pc EXCEPT ![t] = "done"]
    /\ UNCHANGED <<facade, client, handled, err, nq, lastQuery, checkedOut, wire, plain, np, sqlvars>>

\* The catch block is entered with e: await client.query('ROLLBACK').
Catch(t, e, ev) ==
    /\ err' = [err EXCEPT ![t] = e]
    /\ wire' = Send(wire, client[t], t, "facade", CatchStmt)
    /\ events' = [events EXCEPT ![t] = @ \o ev \o <<CatchStmt[1]>>]
    /\ pc' = [pc EXCEPT ![t] = "rollback"]

\* BEGIN resolved: the handler is called with the transaction's query function.
BeginOk(t) ==
    /\ pc[t] = "begin"
    /\ pc' = [pc EXCEPT ![t] = "handler"]
    /\ events' = [events EXCEPT ![t] = @ \o <<"BEGIN.ok">>]
    /\ UNCHANGED <<facade, client, handled, err, outcome, nq, lastQuery,
                   checkedOut, wire, plain, np, sqlvars>>

BeginFailed(t) ==
    /\ pc[t] = "begin"
    /\ Catch(t, "eBegin", <<"BEGIN.err">>)
    /\ UNCHANGED <<facade, client, handled, outcome, nq, lastQuery, checkedOut, plain, np, sqlvars>>

\* The handler runs query(f) on the function it was passed (line 17 / 37); the
\* driver answers with rows.
HandlerQuery(t) ==
    /\ pc[t] = "handler"
    /\ nq[t] < MaxQueries
    /\ \E f \in Frags, rows \in DriverRows :
          /\ wire' = Send(wire, client[t], t, "handler", QueryText(f))
          /\ lastQuery' = [lastQuery EXCEPT ![t] =
                <<[frag |-> f, driver |-> rows, rows |-> QueryRows(f, rows)]>>]
    /\ nq' = [nq EXCEPT ![t] = @ + 1]
    /\ events' = [events EXCEPT ![t] = @ \o <<"query">>]
    /\ UNCHANGED <<facade, pc, client, handled, err, outcome, checkedOut, plain, np, sqlvars>>

\* The handler resolves with v: res = v; await client.query('COMMIT').
HandlerResolves(t) ==
    /\ pc[t] = "handler"
    /\ \E v \in Vals : handled' = [handled EXCEPT ![t] = [kind |-> "value", v |-> v]]
    /\ wire' = Send(wire, client[t], t, "facade", AfterHandler)
    /\ events' = [events EXCEPT ![t] = @ \o <<"handler.ok", AfterHandler[1]>>]
    /\ pc' = [pc EXCEPT ![t] = "commit"]
    /\ UNCHANGED <<facade, client, err, outcome, nq, lastQuery, checkedOut, plain, np, sqlvars>>

\* The handler rejects with e (its own failure, or a query's it let through).
HandlerRejects(t) ==
    /\ pc[t] = "handler"
    /\ \E e \in HandlerErrs :
          /\ handled' = [handled EXCEPT ![t] = [kind |-> "error", v |-> e]]
          /\ Catch(t, e, <<"handler.err">>)
    /\ UNCHANGED <<facade, client, outcome, nq, lastQuery, checkedOut, plain, np, sqlvars>>

\* COMMIT resolved: return res.
CommitOk(t) ==
    /\ pc[t] = "commit"
    /\ Exit(t, <<"COMMIT.ok">>, Returned(handled[t].v))
    /\ UNCHANGED <<facade, client, handled, err, nq, lastQuery, wire, plain, np, sqlvars>>

CommitFailed(t) ==
    /\ pc[t] = "commit"
    /\ Catch(t, "eCommit", <<"COMMIT.err">>)
    /\ UNCHANGED <<facade, client, handled, outcome, nq, lastQuery, checkedOut, plain, np, sqlvars>>

\* ROLLBACK settled: throw err, or the failure of ROLLBACK itself.
RollbackDone(t) ==
    /\ pc[t] = "rollback"
    /\ \E ok \in BOOLEAN :
          Exit(t, IF ok THEN <<"ROLLBACK.ok">> ELSE <<"ROLLBACK.err">>, Thrown(err[t], ok))
    /\ UNCHANGED <<facade, client, handled, err, nq, lastQuery, wire, plain, np, sqlvars>>

\* A plain query(f) on the facade: client.query on the one client, or
\* pool.query, which runs on a connection nobody holds.
PlainQuery ==
    /\ np < MaxPlain
    /\ np' = np + 1
    /\ \E f \in Frags, rows \in DriverRows, c \in Conns :
          /\ c = IF facade = "pool" THEN c ELSE TheClient
          /\ facade = "pool" => c \notin checkedOut
          /\ wire' = Send(wire, c, 0, "plain", QueryText(f))
          /\ plain' = <<[frag |-> f, driver |-> rows, rows |-> QueryRows(f, rows)]>>
    /\ UNCHANGED <<facade, pc, client, handled, err, outcome, nq, lastQuery,
                   checkedOut, events, sqlvars>>

TxNext ==
    \/ \E t \in Tx : Call(t)
    \/ \E t \in Tx : Connected(t)
    \/ \E t \in Tx : ConnectFailed(t)
    \/ \E t \in Tx : BeginOk(t)
    \/ \E t \in Tx : BeginFailed(t)
    \/ \E t \in Tx : HandlerQuery(t)
    \/ \E t \in Tx : HandlerResolves(t)
    \/ \E t \in Tx : HandlerRejects(t)
    \/ \E t \in Tx : CommitOk(t)
    \/ \E t \in Tx : CommitFailed(t)
    \/ \E t \in Tx : RollbackDone(t)
    \/ PlainQuery


\* --------------------------------------------------- values and texts

Undefined == [t |-> "undefined"]
Null == [t |-> "null"]
Str(s) == [t |-> "string", s |-> s]
Num(s) == [t |-> "number", s |-> s]
Bool(b) == [t |-> "boolean", b |-> b]
Arr(items) == [t |-> "Array", items |-> items]

\* Array.prototype.join over texts.
RECURSIVE Join(_, _)
Join(parts, sep) ==
    IF parts = <<>> THEN <<>>
    ELSE IF Len(parts) = 1 THEN parts[1]
    ELSE parts[1] \o sep \o Join(Tail(parts), sep)

Range(s) == {s[i] : i \in DOMAIN s}

\* pg-format's literal (quoteLiteral): null and undefined are NULL, booleans
\* 't' / 'f', anything else its toString() between single quotes with every
\* quote and backslash doubled, and an E in front when a backslash was met.
\* serialize never hands it an array or a fragment.
RECURSIVE EscapeLiteral(_)
EscapeLiteral(s) ==
    IF s = <<>> THEN <<>>
    ELSE (IF Head(s) \in {"'", "\\"} THEN <<Head(s), Head(s)>> ELSE <<Head(s)>>)
         \o EscapeLiteral(Tail(s))

literal(val) ==
    CASE val.t \in {"undefined", "null"} -> <<"NULL">>
      [] val.t = "boolean" -> IF val.b THEN <<"'", "t", "'">> ELSE <<"'", "f", "'">>
      [] val.t \in {"string", "number"} ->
            LET quoted == <<"'">> \o EscapeLiteral(val.s) \o <<"'">>
            IN  IF "\\" \in Range(val.s) THEN <<"E">> \o quoted ELSE quoted

\* pg-format's ident (quoteIdent): a name matching /^[a-z_][a-z0-9_$]*$/ that
\* is no reserved word stays as it is; any other goes between double quotes
\* with every double quote doubled.
IdentStart == {"a", "b", "_"}
IdentRest == IdentStart \cup {"1", "$"}
ReservedWords == {<<"a", "s">>}

RECURSIVE EscapeIdent(_)
EscapeIdent(s) ==
    IF s = <<>> THEN <<>>
    ELSE (IF Head(s) = "\"" THEN <<Head(s), Head(s)>> ELSE <<Head(s)>>)
         \o EscapeIdent(Tail(s))

ident(s) ==
    IF /\ s # <<>>
       /\ s[1] \in IdentStart
       /\ \A i \in 2..Len(s) : s[i] \in IdentRest
       /\ s \notin ReservedWords
    THEN s
    ELSE <<"\"">> \o EscapeIdent(s) \o <<"\"">>

\* ----------------------------------------------------------- serialize

\* config.customSerialize?.(val): undefined when no hook is installed. A hook
\* is a function of the value; here it answers out for the values whose type
\* is in on, and null for every other.
CustomSerialize(cfg, val) ==
    IF cfg.customSerialize = Undefined THEN Undefined
    ELSE IF val.t \in cfg.customSerialize.on THEN cfg.customSerialize.out
    ELSE Null

\* if (custom): JavaScript's truthiness of what the hook returned.
HookAnswered(custom) == custom.t = "string" /\ custom.s # <<>>

\* val instanceof WithRawSql
IsWithRawSql(val) == val.t = "WithRawSql"

\* A list joined by a comma and a space.
MutParenthesize(parts) == <<"(">> \o Join(parts, <<",", " ">>) \o <<")">>

\* `(${ ... .join(',')})`
Parenthesize(parts) == <<"(">> \o Join(parts, <<",">>) \o <<")">>

RECURSIVE serialize(_, _)
serialize(cfg, val) ==
    LET custom == CustomSerialize(cfg, val)
    IN  IF HookAnswered(custom) THEN custom.s
        ELSE IF IsWithRawSql(val) THEN val.rawSql
        ELSE IF val.t = "Array"
             THEN Parenthesize([i \in DOMAIN val.items |-> serialize(cfg, val.items[i])])
        ELSE literal(val)

\* ------------------------------------------------------------- helpers

Return(v) == [kind |-> "return", v |-> v]
Throw(message) == [kind |-> "throw", v |-> [t |-> "Error", message |-> message]]

\* sql.raw
raw(rawSql) == WithRawSql(rawSql)

\* sql.list
list(cfg, items) ==
    raw(<<"(">> \o Join([i \in DOMAIN items |-> serialize(cfg, items[i])], <<",">>) \o <<")">>)

\* !!c and !defaultCondition: null and undefined are falsy, an object is truthy.
Truthy(c) == c.t \notin {"undefined", "null"}

\* A combinator that is always AND.
MutSeparator(op) == <<" ", "AND", " ">>

\* ` ${op} `
Separator(op) == <<" ", op, " ">>

\* sql.where
where(conditions, op, defaultCondition) ==
    LET kept == SelectSeq(conditions, Truthy)
        filteredCondition == [i \in DOMAIN kept |-> <<"(">> \o kept[i].rawSql \o <<")">>]
    IN  IF Len(filteredCondition) = 0
        THEN IF ~Truthy(defaultCondition)
             THEN Throw("No conditions")
             ELSE Return(defaultCondition)
        ELSE Return(raw(Join(filteredCondition, Separator(op))))

\* sql.and, sql.or
and(conditions, defaultCondition) == where(conditions, "AND", defaultCondition)
or(conditions, defaultCondition) == where(conditions, "OR", defaultCondition)

\* A filter that drops null with undefined (data[key] != null).
MutIsDefined(entry) == entry.value.t \notin {"undefined", "null"}

\* A mapping is the sequence of its entries [key, value], in the order of
\* Object.keys. data[key] !== undefined:
IsDefined(entry) == entry.value # Undefined

\* Object.keys(data).filter(key => data[key] !== undefined)
DefinedKeys(data) == SelectSeq(data, IsDefined)

\* sql.insert
insert(cfg, data) ==
    LET keys == DefinedKeys(data)
    IN  IF Len(keys) = 0 THEN Throw("No keys to insert")
        ELSE Return(raw(
                <<"(">> \o Join([i \in DOMAIN keys |-> ident(keys[i].key)], <<",">>)
                \o <<")", " VALUES ", "(">>
                \o Join([i \in DOMAIN keys |-> serialize(cfg, keys[i].value)], <<",">>)
                \o <<")">>))

\* sql.set
set(cfg, data) ==
    LET keys == DefinedKeys(data)
    IN  IF Len(keys) = 0 THEN Throw("No keys to update")
        ELSE Return(raw(Join(
                [i \in DOMAIN keys |->
                    ident(keys[i].key) \o <<"=">> \o serialize(cfg, keys[i].value)],
                <<",">>)))

\* ------------------------------------------------ the inputs of the calls

SeqsUpTo(S, n) == UNION {[1..k -> S] : k \in 0..n}

Texts == {<<>>, <<"a">>, <<"'">>, <<"x", "'", "\\">>}
Atoms == {Undefined, Null, Str(<<"a">>), Str(<<"'", "\\">>), Num(<<"1">>), Bool(TRUE),
          raw(<<"x", "'">>)}
FlatArrays == {Arr(items) : items \in SeqsUpTo(Atoms, MaxLen)}
Inner == {Str(<<"a">>), raw(<<"x", "'">>), Arr(<<>>), Arr(<<Null, raw(<<"'">>)>>),
          Arr(<<Arr(<<Num(<<"1">>)>>)>>)}
NestedArrays == {Arr(items) : items \in SeqsUpTo(Inner, 2)}
Values == Atoms \cup {raw(s) : s \in Texts} \cup FlatArrays \cup NestedArrays

\* Hooks: one with no opinion, and ones answering a text for one type.
HookOuts == {Null, Str(<<>>), Str(<<"H">>)}
Hooks == {[on |-> {}, out |-> Null]}
         \cup {[on |-> {ty}, out |-> o] :
                  ty \in {"string", "null", "WithRawSql", "Array"}, o \in HookOuts \ {Null}}

Conditions == {Null, Undefined, raw(<<"x=1">>), raw(<<"y=2">>)}
Defaults == {Undefined, raw(<<"TRUE">>)}
Keys == {<<"a">>, <<"b", "1">>, <<"U", "\"">>, <<"a", "s">>}
FieldValues == {Undefined, Null, Num(<<"1">>), Str(<<"'">>)}
Mappings ==
    {data \in SeqsUpTo([key : Keys, value : FieldValues], MaxLen) :
        \A i, j \in DOMAIN data : i # j => data[i].key # data[j].key}

NoCall == [op |-> "none"]

SqlInit ==
    /\ config = [customSerialize |-> Undefined]
    /\ call = NoCall
    /\ ret = Return(Undefined)

\* A call of the module is made while no other is under way (the functions are
\* synchronous), and its result stays until the caller is done with it.
Idle == call = NoCall

\* The caller is done with the result.
Done ==
    /\ ~Idle
    /\ call' = NoCall
    /\ ret' = Return(Undefined)
    /\ UNCHANGED <<config, txvars>>

\* config.customSerialize = hook, between two calls.
SetCustomSerialize ==
    /\ Idle
    /\ \E h \in Hooks : config' = [customSerialize |-> h]
    /\ UNCHANGED <<call, ret, txvars>>

CallSerialize ==
    /\ Idle
    /\ \E val \in Values :
          /\ call' = [op |-> "serialize", args |-> <<val>>]
          /\ ret' = Return(Str(serialize(config, val)))
    /\ UNCHANGED <<config, txvars>>

CallList ==
    /\ Idle
    /\ \E xs \in FlatArrays :
          /\ call' = [op |-> "list", args |-> <<xs.items>>]
          /\ ret' = Return(list(config, xs.items))
    /\ UNCHANGED <<config, txvars>>

CallWhere ==
    /\ Idle
    /\ \E cs \in SeqsUpTo(Conditions, MaxLen), op \in {"AND", "OR"}, d \in Defaults :
          /\ call' = [op |-> "where", args |-> <<cs, op, d>>]
          /\ ret' = where(cs, op, d)
    /\ UNCHANGED <<config, txvars>>

CallAnd ==
    /\ Idle
    /\ \E cs \in SeqsUpTo(Conditions, MaxLen), d \in Defaults :
          /\ call' = [op |-> "and", args |-> <<cs, d>>]
          /\ ret' = and(cs, d)
    /\ UNCHANGED <<config, txvars>>

CallOr ==
    /\ Idle
    /\ \E cs \in SeqsUpTo(Conditions, MaxLen), d \in Defaults :
          /\ call' = [op |-> "or", args |-> <<cs, d>>]
          /\ ret' = or(cs, d)
    /\ UNCHANGED <<config, txvars>>

CallInsert ==
    /\ Idle
    /\ \E data \in Mappings :
          /\ call' = [op |-> "insert", args |-> <<data>>]
          /\ ret' = insert(config, data)
    /\ UNCHANGED <<config, txvars>>

CallSet ==
    /\ Idle
    /\ \E data \in Mappings :
          /\ call' = [op |-> "set", args |-> <<data>>]
          /\ ret' = set(config, data)
    /\ UNCHANGED <<config, txvars>>

SqlNext ==
    \/ SetCustomSerialize
    \/ CallSerialize
    \/ CallList
    \/ CallWhere
    \/ CallAnd
    \/ CallOr
    \/ CallInsert
    \/ CallSet
    \/ Done

\* The facade under concurrent transaction() calls; the sql module at rest.
TxStart == TxInit /\ SqlInit
TxSpec == TxStart /\ [][TxNext]_vars

\* The sql module under calls; the facade at rest.
SqlStart == TxInit /\ SqlInit
SqlSpec == SqlStart /\ [][SqlNext]_vars

\* ------------------------------------------------------------ the claims

\* What the connection of call t received from call t, in order.
TxEntries(t) ==
    LET Own(e) == e.tx = t
    IN  IF client[t] = 0 THEN <<>> ELSE SelectSeq(wire[client[t]], Own)

\* The statements the facade itself sent for call t.
FacadeTexts(t) ==
    LET ByFacade(e) == e.by = "facade"
        sent == SelectSeq(TxEntries(t), ByFacade)
    IN  [i \in DOMAIN sent |-> sent[i].text]

Count(e, s) == Cardinality({i \in DOMAIN s : s[i] = e})

\* C1: once the handler of a transaction call has rejected (BEGIN had
\* succeeded, or it would not have run), the statements the facade sent on the
\* call's connection are BEGIN then ROLLBACK, and no COMMIT, whatever the
\* handler ran before.
C1_HandlerFailureRollsBack ==
    \A t \in Tx :
        handled[t].kind = "error" =>
            /\ FacadeTexts(t) = <<BEGIN, ROLLBACK>>
            /\ \A i \in DOMAIN TxEntries(t) : TxEntries(t)[i].text # COMMIT

C1_Witness ==
    \E t \in Tx : handled[t].kind = "error" /\ nq[t] >= 1 /\ pc[t] = "done"

\* C2: BEGIN is the first statement of a call on its connection, before every
\* handler query; COMMIT is sent only after the handler has resolved and
\* after every handler query; and when COMMIT succeeds the call resolves with
\* the very value the handler returned.
C2_CommitAfterHandler ==
    \A t \in Tx :
        LET w == TxEntries(t)
        IN  /\ w # <<>> => w[1] = [tx |-> t, by |-> "facade", text |-> BEGIN]
            /\ \A i \in DOMAIN events[t] :
                  events[t][i] = "COMMIT" =>
                      \E j \in 1..(i - 1) : events[t][j] = "handler.ok"
            /\ handled[t].kind = "value" =>
                  /\ Count(COMMIT, FacadeTexts(t)) = 1
                  /\ \A i, j \in DOMAIN w :
                        w[i].by = "handler" /\ w[j].text = COMMIT => i < j
            /\ Count("COMMIT.ok", events[t]) > 0 =>
                  /\ handled[t].kind = "value"
                  /\ outcome[t] = [kind |-> "resolved", v |-> handled[t].v]

C2_Witness ==
    \E t \in Tx :
        /\ pc[t] = "done" /\ nq[t] >= 1
        /\ handled[t] = [kind |-> "value", v |-> "v2"]
        /\ outcome[t].kind = "resolved"

\* C3: a wrapPool transaction call that acquired a connection holds it until
\* it exits, and on every exit path releases it exactly once, after the last
\* statement it sent and right before the call settles.
C3_ReleasedOnceOnEveryPath ==
    \A t \in Tx :
        facade = "pool" /\ client[t] # 0 =>
            LET ev == events[t]
            IN  IF pc[t] = "done"
                THEN /\ Count("release", ev) = 1
                     /\ ev[Len(ev) - 1] = "release"
                     /\ ev[Len(ev)] = "settle"
                     /\ outcome[t].kind \in {"resolved", "rejected"}
                ELSE /\ Count("release", ev) = 0
                     /\ client[t] \in checkedOut
                     /\ outcome[t].kind = "none"

C3_Witness ==
    /\ facade = "pool"
    /\ \A t \in Tx : pc[t] = "done" /\ client[t] # 0
    /\ Count("COMMIT.err", events[1]) = 1 /\ Count("ROLLBACK.err", events[1]) = 1
    /\ Count("handler.err", events[2]) = 1

\* C4: when the handler rejects with E, the transaction call rejects with E,
\* also when ROLLBACK itself fails.
C4_HandlerFailureNotMasked ==
    \A t \in Tx :
        handled[t].kind = "error" /\ pc[t] = "done" =>
            outcome[t] = [kind |-> "rejected", v |-> handled[t].v]

\* Two calls in progress never run on the same connection, and on a connection
\* no statement of another call falls between two statements of one call.
Dedicated ==
    /\ \A t1, t2 \in Tx :
          /\ t1 # t2
          /\ pc[t1] \in {"begin", "handler", "commit", "rollback"}
          /\ pc[t2] \in {"begin", "handler", "commit", "rollback"}
          => client[t1] # client[t2]
    /\ \A c \in Conns : \A i, j, k \in DOMAIN wire[c] :
          i < j /\ j < k /\ wire[c][i].tx # 0 /\ wire[c][i].tx = wire[c][k].tx
          => wire[c][j].tx \in {0, wire[c][i].tx}

\* C5, as claimed: on a facade of either kind, concurrent transactions each
\* have a connection of their own, and their statements do not interleave on
\* one connection.
C5_DedicatedConnection == Dedicated

\* C5, amended: on a facade made by wrapPool, concurrent transactions each
\* have a connection of their own, and their statements do not interleave on
\* one connection.
C5_PoolDedicatedConnection == facade = "pool" => Dedicated

C5_Witness ==
    /\ facade = "pool"
    /\ \A t \in Tx : pc[t] = "handler" /\ nq[t] >= 1

\* The queries run so far, with what the caller got back.
QueriesRun ==
    {lastQuery[t][1] : t \in {u \in Tx : lastQuery[u] # <<>>}}
    \cup {plain[i] : i \in DOMAIN plain}

\* C6: a query, plain or in a transaction, returns the driver's rows with the
\* fragment's transform applied to each, and the driver's rows as they are
\* when the fragment has no transform.
C6_TransformApplied ==
    \A q \in QueriesRun :
        q.rows = [i \in DOMAIN q.driver |->
                     IF q.frag._packF = NoPack THEN q.driver[i]
                     ELSE ApplyPack(q.frag._packF, q.driver[i])]

\* C7: when the installed hook returns a string for a value, the empty string
\* included, serialize returns that string.
C7_HookAnswerVerbatim ==
    call.op = "serialize" /\ config.customSerialize # Undefined =>
        LET custom == CustomSerialize(config, call.args[1])
        IN  custom.t = "string" => ret = Return(Str(custom.s))

\* A list of texts with a comma between each two.
RECURSIVE CommaSeparated(_)
CommaSeparated(parts) ==
    IF Len(parts) = 0 THEN <<>>
    ELSE IF Len(parts) = 1 THEN parts[1]
    ELSE CommaSeparated(SubSeq(parts, 1, Len(parts) - 1)) \o <<",">> \o parts[Len(parts)]

\* C8: with no hook, serialize of a raw fragment is the fragment's text, and
\* serialize of an array is "(", the serializations of its elements with ","
\* between, ")": "()" for the empty array, and the text of a raw fragment
\* among the elements as it is.
C8_RawVerbatimArraysParenthesized ==
    call.op = "serialize" /\ config.customSerialize = Undefined =>
        LET val == call.args[1]
        IN  /\ val.t = "WithRawSql" => ret = Return(Str(val.rawSql))
            /\ val.t = "Array" =>
                  /\ ret = Return(Str(
                        <<"(">>
                        \o CommaSeparated([i \in DOMAIN val.items |->
                              IF val.items[i].t = "WithRawSql" THEN val.items[i].rawSql
                              ELSE serialize(config, val.items[i])])
                        \o <<")">>))
                  /\ val.items = <<>> => ret = Return(Str(<<"(", ")">>))

C8_Witness ==
    /\ call.op = "serialize" /\ config.customSerialize = Undefined
    /\ call.args[1].t = "Array"
    /\ \E i, j \in DOMAIN call.args[1].items :
          /\ call.args[1].items[i].t = "WithRawSql"
          /\ call.args[1].items[j].t = "Array"

\* The conditions with "(", ")" around each and the combinator between.
RECURSIVE Combined(_, _)
Combined(cs, op) ==
    LET last == <<"(">> \o cs[Len(cs)].rawSql \o <<")">>
    IN  IF Len(cs) = 1 THEN last
        ELSE Combined(SubSeq(cs, 1, Len(cs) - 1), op) \o <<" ", op, " ">> \o last

C10_UndefinedDroppedNullKept ==
    call.op \in {"set", "insert"} =>
        LET data == call.args[1]
            Present(e) == e.value.t # "undefined"
            kept == SelectSeq(data, Present)
            cols == [i \in DOMAIN kept |-> ident(kept[i].key)]
            vals == [i \in DOMAIN kept |->
                        IF kept[i].value = Null
                           /\ ~HookAnswered(CustomSerialize(config, Null))
                        THEN <<"NULL">>
                        ELSE serialize(config, kept[i].value)]
        IN  IF kept = <<>>
            THEN /\ ret.kind = "throw"
                 /\ ret.v.message =
                       IF call.op = "set" THEN "No keys to update" ELSE "No keys to insert"
            ELSE ret = Return(WithRawSql(
                    IF call.op = "set"
                    THEN CommaSeparated([i \in DOMAIN kept |-> cols[i] \o <<"=">> \o vals[i]])
                    ELSE <<"(">> \o CommaSeparated(cols) \o <<")", " VALUES ", "(">>
                         \o CommaSeparated(vals) \o <<")">>))

C10_Witness ==
    /\ call.op = "set"
    /\ Len(call.args[1]) = 3
    /\ call.args[1][1].value = Null
    /\ call.args[1][2].value = Undefined
    /\ call.args[1][3].value = Num(<<"1">>)
    /\ ret.kind = "return"

====
